---- MODULE Spec2Model ----
(***************************************************************************)
(* Model of dataset/dali_imagenet.py: the DALI pipeline graph assembled by *)
(* DaliDataloader.__init__, the iterator adapter (__iter__, __next__) and  *)
(* the DaliImageNet mapping.                                               *)
(*                                                                         *)
(* DaliDataloader derives from DALIClassificationIterator; the calls       *)
(* super().__init__, super().__next__ and self.reset() are modelled by the *)
(* behaviour of the DALI base iterator they invoke (counter, size, first   *)
(* prefetched batch, stop check with auto reset), with the arguments the   *)
(* source passes.  The reader is modelled with the defaults the source     *)
(* leaves in place: num_shards = 1, shard_id = 0, pad_last_batch = False.  *)
(*                                                                         *)
(* The source passes last_batch_policy as a plain string.  Depending on    *)
(* the installed library the base iterator either rejects a value that is  *)
(* not a LastBatchPolicy member (ValueError in the constructor) or stores  *)
(* it and compares it with the enum members later; both are modelled       *)
(* (policyTypeChecked).                                                    *)
(***************************************************************************)
EXTENDS Integers, Sequences, FiniteSets, TLC

\* ---- bounds of the model ----
MaxSize == 3        \* records in one split (epoch_size of the reader)
MaxBatch == 2       \* batch_size
MaxFiles == 1       \* shard files (and index files) matched by one glob
MaxExtra == 3       \* calls of __next__ beyond MaxSize on a loader built directly
MaxPairPulls == 1   \* calls of __next__ on each entry of a DaliImageNet mapping

\* ---- program constants ----
NumClasses == 1000

Keys == {"train", "test"}
NoBatch == [none |-> TRUE]
Stop == [stop |-> TRUE]
NoObj == [absent |-> TRUE]

Ceil(a, b) == (a + b - 1) \div b

\* raw 'image/class/label' value stored in record i (1-indexed label space)
RawLabel(i) == ((i * 333) % NumClasses) + 1

\* variant: the label is passed through without the shift
LabelOpRaw(raw) == raw

\* label = inputs["image/class/label"] - 1
LabelOp(raw) == raw - 1

\* variant: the reader shuffles in both modes
RandomShuffleAlways(training) == TRUE

\* random_shuffle=training
RandomShuffle(training) == training

\* fn.random.coin_flip is added to the graph in the training branch only
CoinFlipInGraph(training) == training

\* flip_lr: fn.random.coin_flip(probability=0.5) when training, else False
FlipLr(training, coin) == IF training THEN coin ELSE FALSE

\* fn.rotate(..., angle=fn.random.uniform(...)) exists in the training branch only
Rotated(training) == training

\* last_batch_policy = 'DROP' if training else 'PARTIAL'   (plain strings)
LastBatchPolicyArg(training) == IF training THEN "DROP" ELSE "PARTIAL"

\* members of the enum LastBatchPolicy, which the base iterator compares with
EnumFILL == "LastBatchPolicy.FILL"
EnumDROP == "LastBatchPolicy.DROP"
EnumPARTIAL == "LastBatchPolicy.PARTIAL"
IsEnum(p) == p \in {EnumFILL, EnumDROP, EnumPARTIAL}

\* variant: the iterator is built without auto_reset
AutoResetOff == FALSE

\* auto_reset=True
AutoReset == TRUE

\* the randomness one engine run may draw: the training graph holds the
\* shuffling reader and one coin flip per sample, the evaluation graph holds
\* no random operator
Rnd(training, S, B) ==
    [off : IF RandomShuffle(training) THEN 0 .. (S - 1) ELSE {0},
     coin : IF CoinFlipInGraph(training) THEN [1 .. B -> BOOLEAN]
            ELSE {[j \in 1 .. B |-> FALSE]}]

\* one run of the built pipeline: the next batch_size records from the read
\* position (wrapping at the end of the split), through the operator graph
Sample(l, rnd, j) ==
    LET base == IF RandomShuffle(l.training) THEN l.pos + rnd.off ELSE l.pos
        i == (base + (j - 1)) % l.S
    IN [idx |-> i,
        mirror |-> FlipLr(l.training, rnd.coin[j]),
        rotated |-> Rotated(l.training),
        label |-> LabelOp(RawLabel(i))]

RunPipeline(l, rnd) ==
    LET smp == [j \in 1 .. l.batch_size |-> Sample(l, rnd, j)]
    IN [data |-> [j \in 1 .. l.batch_size |-> [idx |-> smp[j].idx,
                                               mirror |-> smp[j].mirror,
                                               rotated |-> smp[j].rotated]],
        label |-> [shape |-> <<l.batch_size, 1>>,
                   vals |-> [j \in 1 .. l.batch_size |-> smp[j].label]]]

\* size of the epoch as the base iterator derives it from the reader
SizeFromReader(policy, S, B) ==
    IF policy = EnumDROP THEN S ELSE Ceil(S, B) * B

\* variant: a reset that is honoured in the middle of an epoch
BaseResetUnguarded(l) == [l EXCEPT !.counter = 0]

\* reset() of the base iterator: ignored before the end of the epoch
BaseReset(l) ==
    IF l.counter >= l.size \/ l.size < 0
    THEN [l EXCEPT !.counter = 0]
    ELSE l

\* first n samples of an engine output (removal of padded samples)
Take(d, n) ==
    [data |-> SubSeq(d.data, 1, n),
     label |-> [shape |-> <<n, 1>>, vals |-> SubSeq(d.label.vals, 1, n)]]

\* __next__ of the base iterator; result: the new object state and what the
\* call returns (an engine output, or Stop for StopIteration)
BaseNext(l, rnd) ==
    IF l.first # NoBatch
    THEN [l |-> [l EXCEPT !.first = NoBatch], ret |-> l.first]
    ELSE IF l.counter >= l.size /\ l.size > 0
    THEN [l |-> IF AutoReset THEN BaseReset(l) ELSE l, ret |-> Stop]
    ELSE LET out == RunPipeline(l, rnd)
             adv == [l EXCEPT !.counter = @ + l.batch_size,
                              !.pos = (@ + l.batch_size) % l.S]
             left == l.batch_size - (adv.counter - l.S)
         IN IF l.policy = EnumDROP /\ adv.counter > l.S
            THEN [l |-> IF AutoReset THEN BaseReset(adv) ELSE adv, ret |-> Stop]
            ELSE IF l.policy = EnumPARTIAL /\ left < l.batch_size
            THEN [l |-> adv, ret |-> Take(out, left)]
            ELSE [l |-> adv, ret |-> out]

\* label.squeeze(): every dimension of length 1 is removed
Squeeze(t) == [t EXCEPT !.shape = SelectSeq(@, LAMBDA d : d # 1)]


VARIABLES
    policyTypeChecked,  \* whether the installed base iterator rejects a
                        \* last_batch_policy that is not a LastBatchPolicy member
    status,             \* outcome of the constructor call: "none" before it
    cfg,                \* the file lists the constructor was given: per loader,
                        \* whether data and index lists pair up
    dict,               \* the names through which the caller reaches the objects:
                        \* the DaliImageNet mapping, or the name "loader" bound
                        \* to a DaliDataloader constructed directly
    obj,                \* the DaliDataloader objects
    out                 \* per name, what the caller has observed so far

vars == <<policyTypeChecked, status, cfg, dict, obj, out>>

Names == Keys \cup {"loader"}
MaxPulls == MaxSize + MaxExtra
PullCap(k) == IF k = "loader" THEN MaxPulls ELSE MaxPairPulls

Empty == [k \in {} |-> 0]
NoCfg == [via |-> "none", root |-> FALSE, lists |-> Empty]

\* a data file list of length nData given together with nIdx index files
Lists(nData, nIdx) ==
    IF nData = 0 THEN "empty" ELSE IF nData # nIdx THEN "mismatch" ELSE "paired"
NoOut == [last |-> "none", batch |-> NoBatch, got |-> 0, lastPass |-> 0,
          passes |-> 0, pulls |-> 0, loop |-> "clean"]

\* pipe.build(): the engine instantiates the tfrecord reader and rejects an
\* empty file list and a file list whose length differs from the index list
PipeBuild(nData, nIdx) == IF nData = 0 \/ nData # nIdx THEN "engine_error" ELSE "ok"

\* DaliDataloader.__init__: the object after construction, or the error raised
DaliDataloader(nData, nIdx, S, B, training, strict, rnd) ==
    LET policy == LastBatchPolicyArg(training)
        l0 == [training |-> training, batch_size |-> B, S |-> S,
               policy |-> policy, size |-> SizeFromReader(policy, S, B),
               counter |-> 0, pos |-> 0, first |-> NoBatch]
        r == BaseNext(l0, rnd)
    IN IF PipeBuild(nData, nIdx) # "ok" THEN [err |-> PipeBuild(nData, nIdx)]
       ELSE IF strict /\ ~IsEnum(policy) THEN [err |-> "value_error"]
       ELSE IF r.ret = Stop THEN [err |-> "no_data"]
       ELSE [r.l EXCEPT !.first = r.ret]

IsErr(x) == "err" \in DOMAIN x

\* glob.glob(os.path.join(root, pattern)): nothing under a missing root
Glob(rootExists, n) == IF rootExists THEN n ELSE 0

\* variant: both keys bound to the training loader
MakeDictAliased(train, test) == [k \in Keys |-> train]

\* super().__init__(train=train, test=test)
MakeDict(train, test) == [k \in Keys |-> IF k = "train" THEN train ELSE test]

Init ==
    /\ policyTypeChecked \in BOOLEAN
    /\ status = "none"
    /\ cfg = NoCfg
    /\ dict = Empty
    /\ obj = [i \in 1 .. 2 |-> NoObj]
    /\ out = [k \in Names |-> NoOut]

\* DaliImageNet.__init__(root, batch_size=B): train is built first, then test
DaliImageNet ==
    /\ status = "none"
    /\ \E rootExists \in BOOLEAN, B \in 1 .. MaxBatch,
          nd \in [Keys -> 0 .. MaxFiles], ni \in [Keys -> 0 .. MaxFiles],
          S \in [Keys -> 1 .. MaxSize] :
        \E rt \in Rnd(TRUE, S["train"], B), re \in Rnd(FALSE, S["test"], B) :
          LET gd == [k \in Keys |-> Glob(rootExists, nd[k])]
              gi == [k \in Keys |-> Glob(rootExists, ni[k])]
              train == DaliDataloader(gd["train"], gi["train"], S["train"], B,
                                      TRUE, policyTypeChecked, rt)
              test == DaliDataloader(gd["test"], gi["test"], S["test"], B,
                                     FALSE, policyTypeChecked, re)
          IN /\ cfg' = [via |-> "DaliImageNet", root |-> rootExists,
                        lists |-> [k \in Keys |-> Lists(gd[k], gi[k])]]
             /\ IF IsErr(train)
                THEN /\ status' = train.err
                     /\ UNCHANGED <<dict, obj>>
                ELSE IF IsErr(test)
                THEN /\ status' = test.err
                     /\ obj' = [obj EXCEPT ![1] = train]
                     /\ UNCHANGED dict
                ELSE /\ status' = "ok"
                     /\ obj' = [obj EXCEPT ![1] = train, ![2] = test]
                     /\ dict' = MakeDict(1, 2)
    /\ UNCHANGED <<policyTypeChecked, out>>

\* loader = DaliDataloader(files, idx_files, batch_size=B, training=...) called
\* directly by the user
NewDaliDataloader ==
    /\ status = "none"
    /\ \E training \in BOOLEAN, B \in 1 .. MaxBatch, S \in 1 .. MaxSize,
          nd \in 0 .. MaxFiles, ni \in 0 .. MaxFiles :
        \E rnd \in Rnd(training, S, B) :
          LET l == DaliDataloader(nd, ni, S, B, training, policyTypeChecked, rnd)
          IN /\ cfg' = [via |-> "DaliDataloader", root |-> TRUE,
                        lists |-> [k \in {"loader"} |-> Lists(nd, ni)]]
             /\ IF IsErr(l)
                THEN /\ status' = l.err
                     /\ UNCHANGED <<dict, obj>>
                ELSE /\ status' = "ok"
                     /\ obj' = [obj EXCEPT ![1] = l]
                     /\ dict' = [k \in {"loader"} |-> 1]
    /\ UNCHANGED <<policyTypeChecked, out>>

\* variant: __iter__ that resets only once the counter has passed the size
IterOpStrict(l) == IF l.counter > l.size \/ l.size < 0 THEN [l EXCEPT !.counter = 0] ELSE l

\* DaliDataloader.__iter__
IterOp(l) == IF l.counter >= l.size \/ l.size < 0 THEN BaseReset(l) ELSE l

\* how the caller has driven the loader so far: "clean" while __iter__ was
\* called only before the first pull, "reentered" once __iter__ was called
\* again part-way through the first pass, "other" after any other __iter__
\* or reset call
LoopAfterIter(o, l) ==
    IF o.pulls = 0 THEN o.loop
    ELSE IF o.loop # "other" /\ o.passes = 0 /\ l.counter < l.size
    THEN "reentered"
    ELSE "other"

Iter(k) ==
    /\ k \in DOMAIN dict
    /\ obj' = [obj EXCEPT ![dict[k]] = IterOp(@)]
    /\ out' = [out EXCEPT ![k].loop = LoopAfterIter(out[k], obj[dict[k]])]
    /\ UNCHANGED <<policyTypeChecked, status, cfg, dict>>

\* DaliDataloader.__next__: what the call hands to the caller
NextOp(l, rnd) ==
    LET r == BaseNext(l, rnd)
    IN IF r.ret = Stop THEN r
       ELSE [l |-> r.l, ret |-> [img |-> r.ret.data, label |-> Squeeze(r.ret.label)]]

Next_(k) ==
    /\ k \in DOMAIN dict
    /\ out[k].pulls < PullCap(k)
    /\ \E rnd \in Rnd(obj[dict[k]].training, obj[dict[k]].S, obj[dict[k]].batch_size) :
         LET r == NextOp(obj[dict[k]], rnd)
             o == [out[k] EXCEPT !.pulls = @ + 1]
         IN /\ obj' = [obj EXCEPT ![dict[k]] = r.l]
            /\ out' = [out EXCEPT ![k] =
                         IF r.ret = Stop
                         THEN [o EXCEPT !.last = "stop", !.lastPass = o.got,
                                        !.got = 0, !.passes = o.passes + 1]
                         ELSE [o EXCEPT !.last = "batch", !.batch = r.ret,
                                        !.got = o.got + 1]]
    /\ UNCHANGED <<policyTypeChecked, status, cfg, dict>>

\* reset() inherited from the base iterator, called by the user
Reset(k) ==
    /\ k \in DOMAIN dict
    /\ obj' = [obj EXCEPT ![dict[k]] = BaseReset(@)]
    /\ out' = [out EXCEPT ![k].loop = "other"]
    /\ UNCHANGED <<policyTypeChecked, status, cfg, dict>>

Next ==
    \/ DaliImageNet
    \/ NewDaliDataloader
    \/ \E k \in Names : Iter(k)
    \/ \E k \in Names : Next_(k)
    \/ \E k \in Names : Reset(k)

Spec == Init /\ [][Next]_vars


\* ---- the properties ----

L(k) == obj[dict[k]]
Pulled(k) == out[k].pulls' = out[k].pulls + 1
Returned(k) == k \in DOMAIN dict /\ out[k].batch # NoBatch
NSamples(k) == Len(out[k].batch.img)
RoundUp(S, B) == Ceil(S, B) * B

\* the first pass of a fresh loader has just ended with the stop signal; the
\* caller made no call other than __next__ and a leading __iter__
FirstPassDone(k) ==
    /\ out[k].loop = "clean"
    /\ out[k].passes = 1
    /\ out[k].last = "stop"

\* C1: an evaluation loader pulled from its fresh state until the stop signal
\* yields ceil(S/B) batches, and the last of them has S - B*(ceil(S/B) - 1)
\* samples.
C1_EvalPartialLastBatch ==
    \A k \in DOMAIN dict :
        (~L(k).training /\ FirstPassDone(k))
        => /\ out[k].lastPass = Ceil(L(k).S, L(k).batch_size)
           /\ NSamples(k) = L(k).S - L(k).batch_size
                                     * (Ceil(L(k).S, L(k).batch_size) - 1)

\* C2: a training loader pulled from its fresh state until the stop signal
\* yields floor(S/B) batches of B samples each; the S mod B remaining records
\* are not returned.
C2_TrainDropsRemainder ==
    \A k \in DOMAIN dict :
        (L(k).training /\ FirstPassDone(k))
        => /\ out[k].lastPass = L(k).S \div L(k).batch_size
           /\ (out[k].lastPass > 0 => NSamples(k) = L(k).batch_size)

\* all batches of the running epoch have been handed to the caller
Exhausted(k) ==
    /\ out[k].last = "batch"
    /\ L(k).first = NoBatch
    /\ L(k).counter >= L(k).size

\* C3 as stated: once all batches of an epoch have been pulled, one more
\* request does not raise and yields a batch.
C3_NoRaiseAfterLastBatch ==
    [][\A k \in DOMAIN dict :
         (Exhausted(k) /\ Pulled(k)) => out[k].last' = "batch"]_vars

\* C3 amended: the request that follows the last batch of an epoch raises the
\* stop signal once and leaves the counter at zero; the request after that
\* does not raise and yields the first batch of a new pass, without any
\* reinitialisation by the caller.  An __iter__ made after the last batch
\* wraps the counter to zero as well.
C3_NewPassAfterStop ==
    [][\A k \in DOMAIN dict :
         /\ (Pulled(k) /\ out[k].last' = "stop") => L(k).counter' = 0
         /\ (Exhausted(k) /\ Iter(k)) => L(k).counter' = 0
         /\ (Pulled(k) /\ out[k].last = "stop")
             => /\ out[k].last' = "batch"
                /\ out[k].got' = 1
                /\ L(k).counter' = L(k).batch_size]_vars

C3_Witness ==
    \E k \in DOMAIN dict :
        out[k].passes = 1 /\ out[k].last = "batch" /\ out[k].got = 1

\* C4: the label tensor of every returned batch has shape [n], n the number of
\* samples of the batch.
C4_LabelShape ==
    \A k \in DOMAIN dict :
        Returned(k) => out[k].batch.label.shape = <<NSamples(k)>>

\* C5: every returned label is the raw label of its record minus 1.
C5_LabelMinusOne ==
    \A k \in DOMAIN dict :
        Returned(k) =>
            /\ Len(out[k].batch.label.vals) = NSamples(k)
            /\ \A j \in 1 .. NSamples(k) :
                 out[k].batch.label.vals[j] = RawLabel(out[k].batch.img[j].idx) - 1

C5_Witness ==
    \E k \in DOMAIN dict :
        /\ Returned(k)
        /\ out[k].passes = 1
        /\ \E j \in 1 .. NSamples(k) : out[k].batch.label.vals[j] = 333


\* a configuration error: a missing root directory, a glob without a match,
\* or data and index lists of different lengths
BadCfg ==
    /\ cfg.via # "none"
    /\ \/ ~cfg.root
       \/ \E k \in DOMAIN cfg.lists : cfg.lists[k] # "paired"

Others(k) == Keys \ {k}

Sequential(b, S) ==
    \A j \in 1 .. (Len(b.img) - 1) : b.img[j + 1].idx = (b.img[j].idx + 1) % S

AtEpochEnd(l) == l.counter >= l.size \/ l.size < 0

\* batches an uninterrupted for loop over a fresh loader yields: the epoch,
\* and the prefetched first batch once more when the fresh counter (one
\* batch) has already reached the size, since __iter__ then resets it
FirstPassLen(l) ==
    IF l.batch_size >= l.size THEN 2 ELSE l.size \div l.batch_size

C10_OneResetPerEpoch ==
    [][\A k \in DOMAIN dict :
         /\ L(k).counter \in 0 .. RoundUp(L(k).S, L(k).batch_size)
         /\ (L(k).counter' = 0 /\ L(k).counter # 0)
              => L(k).counter = RoundUp(L(k).S, L(k).batch_size)
         /\ out[k].last = "stop" => L(k).counter = 0
         /\ (out[k].last = "stop" /\ Iter(k)) => L(k)' = L(k)
         /\ out[k].last = "stop"
              => out[k].lastPass * L(k).batch_size >= L(k).S]_vars

C10_Witness ==
    \E k \in DOMAIN dict :
        /\ out[k].last = "stop"
        /\ out[k].loop = "other"
        /\ out[k].passes = 1
        /\ L(k).counter = 0

====
